---- MODULE Spec2Model ----
(***************************************************************************)
(* Model of skills/task-decomposition/scripts/validate-plan.py:            *)
(* parse_task_plan, validate_tasks, detect_cycles and the control flow of  *)
(* main; and of generate_task_plan of decompose.py, which writes the plan  *)
(* files that validate-plan.py reads.                                      *)
(*                                                                         *)
(* Text is a sequence of one-character strings.  A field label of the plan *)
(* template ("**Files:**", ...) is kept as one element of such a sequence: *)
(* it is neither whitespace nor a word character nor a newline, which is   *)
(* all the regular expressions of the parser ask of it.                    *)
(*                                                                         *)
(* A document is a sequence of lines.  A line is a record                  *)
(*   [kind |-> "task", num |-> n, text |-> title]   "### Task n: title"    *)
(*   [kind |-> "section", ...]                      "## heading"           *)
(*   [kind |-> "line", text |-> chars]              any other line         *)
(***************************************************************************)
EXTENDS Integers, Sequences, FiniteSets, TLC

(***************************************************************************)
(* Characters and the string methods the parser uses                       *)
(***************************************************************************)
NL == "\n"

\* The backquote character, which the parser strips from file names.  The
\* lexer of TLA+ accepts no backquote inside a string, so it is spelled out.
Backquote == "backquote"

Whitespace == {" ", "\t", NL}

UpperSeq ==
  <<"A","B","C","D","E","F","G","H","I","J","K","L","M",
    "N","O","P","Q","R","S","T","U","V","W","X","Y","Z">>

LowerSeq ==
  <<"a","b","c","d","e","f","g","h","i","j","k","l","m",
    "n","o","p","q","r","s","t","u","v","w","x","y","z">>

DigitSeq == <<"0","1","2","3","4","5","6","7","8","9">>

Range(s) == {s[i] : i \in DOMAIN s}

Digits == Range(DigitSeq)

\* \w of the re module, on the characters of the model
WordChars == Range(UpperSeq) \cup Range(LowerSeq) \cup Digits \cup {"_"}

DigitVal(c) == (CHOOSE i \in DOMAIN DigitSeq : DigitSeq[i] = c) - 1

LowerChar(c) ==
  IF c \in Range(UpperSeq)
  THEN LowerSeq[CHOOSE i \in DOMAIN UpperSeq : UpperSeq[i] = c]
  ELSE c

\* str.lower()
Lower(s) == [i \in DOMAIN s |-> LowerChar(s[i])]

\* s[a..b] as a sequence (empty when a > b)
Slice(s, a, b) == IF a > b THEN << >> ELSE SubSeq(s, a, b)

\* str.strip(chars): drop the leading and trailing characters that are in cs
StripSet(s, cs) ==
  LET keep == {i \in DOMAIN s : s[i] \notin cs}
  IN  IF keep = {} THEN << >>
      ELSE Slice(s, CHOOSE i \in keep : \A j \in keep : i <= j,
                    CHOOSE i \in keep : \A j \in keep : j <= i)

\* str.strip()
Strip(s) == StripSet(s, Whitespace)

\* int(x) for a string of decimal digits
RECURSIVE ToInt(_)
ToInt(ds) ==
  IF ds = << >> THEN 0
  ELSE 10 * ToInt(Slice(ds, 1, Len(ds) - 1)) + DigitVal(ds[Len(ds)])

\* str.split(sep) for a one-character separator: always at least one piece
RECURSIVE Split(_, _)
Split(s, sep) ==
  LET at == {i \in DOMAIN s : s[i] = sep}
  IN  IF at = {} THEN << s >>
      ELSE LET i == CHOOSE k \in at : \A j \in at : k <= j
           IN  << Slice(s, 1, i - 1) >> \o Split(Slice(s, i + 1, Len(s)), sep)

\* the least element of a non-empty set of integers
Min(S) == CHOOSE x \in S : \A y \in S : x <= y

\* the end of the maximal run of characters of cs that starts at s[i]
RunEnd(s, i, cs) ==
  LET stop == {j \in i..Len(s) : s[j] \notin cs}
  IN  IF stop = {} THEN Len(s) ELSE Min(stop) - 1

\* the elements of a finite set of integers, in increasing order
RECURSIVE SortedSeq(_)
SortedSeq(S) == IF S = {} THEN << >> ELSE << Min(S) >> \o SortedSeq(S \ {Min(S)})

(***************************************************************************)
(* parse_task_plan                                                         *)
(***************************************************************************)
FilesLabel == "**Files:**"
PreconditionsLabel == "**Preconditions:**"
DoneWhenLabel == "**Done when:**"
ComplexityLabel == "**Complexity:**"
ParallelLabel == "**Parallel:**"
StepsLabel == "**Steps:**"

NoMatch == [matched |-> FALSE, text |-> << >>]

RECURSIVE JoinLines(_)
JoinLines(ls) ==
  IF ls = << >> THEN << >>
  ELSE IF Len(ls) = 1 THEN ls[1]
  ELSE ls[1] \o << NL >> \o JoinLines(Tail(ls))

\* The lines at which task_pattern matches: the task headers, in document order.
TaskHeaders(content) == SortedSeq({i \in DOMAIN content : content[i].kind = "task"})

\* The last line of the block whose header is line i: the lazy (.+?) runs to
\* the line before the next "\n### Task" or "\n## ", or to the end (\Z).
BlockEnd(content, i) ==
  LET stop == {j \in (i + 1)..Len(content) : content[j].kind \in {"task", "section"}}
  IN  IF stop = {} THEN Len(content) ELSE Min(stop) - 1

\* match.group(2): the text of the block from the title on.  The fields are
\* searched in match.group(0), which is this text after "### Task n: ".
TaskBody(content, i) ==
  JoinLines([k \in 1..(BlockEnd(content, i) - i + 1) |-> content[i + k - 1].text])

\* the first index after p that holds no whitespace, 0 when there is none
SkipSpace(body, p) ==
  LET rest == {j \in (p + 1)..Len(body) : body[j] \notin Whitespace}
  IN  IF rest = {} THEN 0 ELSE Min(rest)

\* the last index of the line that holds index i ("." does not match "\n")
LineEnd(body, i) ==
  LET nl == {j \in i..Len(body) : body[j] = NL}
  IN  IF nl = {} THEN Len(body) ELSE Min(nl) - 1

\* the same with a "." that matches "\n" too, as under re.DOTALL
DotPlusAtDotAll(body, p) ==
  LET q == SkipSpace(body, p)
  IN  IF q # 0 THEN [matched |-> TRUE, text |-> Slice(body, q, Len(body))]
      ELSE IF p < Len(body) THEN [matched |-> TRUE, text |-> << body[Len(body)] >>]
      ELSE NoMatch

\* label \s*(.+) tried with the label at index p
DotPlusAt(body, p) ==
  LET q == SkipSpace(body, p)
      blank == {j \in (p + 1)..Len(body) : body[j] # NL}
  IN  IF q # 0 THEN [matched |-> TRUE, text |-> Slice(body, q, LineEnd(body, q))]
      ELSE IF blank # {}
      THEN LET j == CHOOSE k \in blank : \A m \in blank : m <= k
           IN  [matched |-> TRUE, text |-> << body[j] >>]
      ELSE NoMatch

\* label \s*(\w+) tried with the label at index p
WordAt(body, p) ==
  LET q == SkipSpace(body, p)
  IN  IF q # 0 /\ body[q] \in WordChars
      THEN [matched |-> TRUE, text |-> Slice(body, q, RunEnd(body, q, WordChars))]
      ELSE NoMatch

\* label \s*\n((?:\s+\d+\..+\n?)+) tried with the label at index p
StepsAt(body, p) ==
  LET q == SkipSpace(body, p)
  IN  /\ q # 0
      /\ \E k \in (p + 1)..(q - 2) : body[k] = NL
      /\ body[q] \in Digits
      /\ LET d == RunEnd(body, q, Digits)
         IN  /\ d + 2 <= Len(body)
             /\ body[d + 1] = "."
             /\ body[d + 2] # NL

\* re.search(label \s*(.+), task_body): the leftmost occurrence that matches
SearchField(body, label) ==
  LET hits == {p \in DOMAIN body : body[p] = label /\ DotPlusAt(body, p).matched}
  IN  IF hits = {} THEN NoMatch ELSE DotPlusAt(body, Min(hits))

SearchWord(body, label) ==
  LET hits == {p \in DOMAIN body : body[p] = label /\ WordAt(body, p).matched}
  IN  IF hits = {} THEN NoMatch ELSE WordAt(body, Min(hits))

SearchSteps(body) == \E p \in DOMAIN body : body[p] = StepsLabel /\ StepsAt(body, p)

\* re.findall(r"Task\s+(\d+)", s), each converted with int()
TaskRefStarts(s) ==
  {i \in DOMAIN s :
     /\ i + 5 <= Len(s)
     /\ Slice(s, i, i + 3) = << "T", "a", "s", "k" >>
     /\ s[i + 4] \in Whitespace
     /\ RunEnd(s, i + 4, Whitespace) < Len(s)
     /\ s[RunEnd(s, i + 4, Whitespace) + 1] \in Digits}

TaskRefAt(s, i) ==
  LET d == RunEnd(s, i + 4, Whitespace) + 1
  IN  ToInt(Slice(s, d, RunEnd(s, d, Digits)))

FindTaskRefs(s) ==
  LET at == SortedSeq(TaskRefStarts(s))
  IN  [k \in DOMAIN at |-> TaskRefAt(s, at[k])]

\* lines 52-56
ParseFiles(files_match) ==
  LET files_str == IF files_match.matched THEN Strip(files_match.text) ELSE << >>
      parts == Split(files_str, ",")
  IN  IF files_str # << >>
      THEN [k \in DOMAIN parts |-> StripSet(Strip(parts[k]), {Backquote})]
      ELSE << >>

\* lines 58-65
ParsePreconditions(preconditions_match) ==
  LET preconditions_str ==
        IF preconditions_match.matched THEN Strip(preconditions_match.text)
        ELSE << "n", "o", "n", "e" >>
  IN  IF Lower(preconditions_str) # << "n", "o", "n", "e" >>
      THEN FindTaskRefs(preconditions_str)
      ELSE << >>

\* lines 39-77: the record of the block whose header is line i
ParseTask(content, i) ==
  LET task_body == TaskBody(content, i)
      file_list == ParseFiles(SearchField(task_body, FilesLabel))
      done_match == SearchField(task_body, DoneWhenLabel)
      complexity_match == SearchWord(task_body, ComplexityLabel)
      parallel_match == SearchField(task_body, ParallelLabel)
  IN  [num |-> content[i].num,
       title |-> Strip(task_body),
       files |-> file_list,
       file_count |-> Len(file_list),
       preconditions |-> ParsePreconditions(SearchField(task_body, PreconditionsLabel)),
       done_when |-> IF done_match.matched THEN Strip(done_match.text) ELSE << >>,
       complexity |-> IF complexity_match.matched THEN Lower(complexity_match.text) ELSE << >>,
       parallel |-> IF parallel_match.matched THEN Strip(parallel_match.text) ELSE << >>,
       has_steps |-> SearchSteps(task_body)]

parse_task_plan(content) ==
  LET heads == TaskHeaders(content)
  IN  [k \in DOMAIN heads |-> ParseTask(content, heads[k])]

(***************************************************************************)
(* detect_cycles                                                           *)
(***************************************************************************)
\* graph = {t["num"]: t["preconditions"] for t in tasks}: the keys keep the
\* order of their first insertion, a repeated key keeps its last value.
GraphKeys(tasks) ==
  LET first == {i \in DOMAIN tasks : \A j \in 1..(i - 1) : tasks[j].num # tasks[i].num}
      at == SortedSeq(first)
  IN  [k \in DOMAIN at |-> tasks[at[k]].num]

\* graph.get(node, [])
GraphGet(tasks, node) ==
  LET has == {i \in DOMAIN tasks : tasks[i].num = node}
  IN  IF has = {} THEN << >>
      ELSE tasks[CHOOSE i \in has : \A j \in has : j <= i].preconditions

\* the state the closure dfs works on; raised: path.index() raised ValueError;
\* entered: the nodes dfs was called on, in the order of the calls
DfsStart == [visited |-> {}, rec_stack |-> {}, path |-> << >>, cycles |-> << >>,
             raised |-> FALSE, entered |-> << >>]

\* path.index(neighbor): the first position of neighbor in path, 0 when absent
PathIndex(path, neighbor) ==
  LET at == {i \in DOMAIN path : path[i] = neighbor}
  IN  IF at = {} THEN 0 ELSE Min(at)

\* the cycle recorded without its closing node
RecordCycleOpen(st, neighbor) ==
  LET cycle_start == PathIndex(st.path, neighbor)
  IN  IF cycle_start = 0 THEN [st EXCEPT !.raised = TRUE]
      ELSE [st EXCEPT !.cycles = Append(@, Slice(st.path, cycle_start, Len(st.path)))]

\* the cycle recorded as the whole path, not its slice from cycle_start
RecordCycleWholePath(st, neighbor) ==
  LET cycle_start == PathIndex(st.path, neighbor)
  IN  IF cycle_start = 0 THEN [st EXCEPT !.raised = TRUE]
      ELSE [st EXCEPT !.cycles = Append(@, st.path \o << neighbor >>)]

\* lines 196-198
RecordCycle(st, neighbor) ==
  LET cycle_start == PathIndex(st.path, neighbor)
  IN  IF cycle_start = 0 THEN [st EXCEPT !.raised = TRUE]
      ELSE [st EXCEPT !.cycles =
              Append(@, Slice(st.path, cycle_start, Len(st.path)) \o << neighbor >>)]

\* rec_stack.add(node) left out
DfsEnterNoStack(st, node) ==
  [st EXCEPT !.visited = @ \cup {node},
             !.path = Append(@, node),
             !.entered = Append(@, node)]

\* lines 189-191
DfsEnter(st, node) ==
  [st EXCEPT !.visited = @ \cup {node},
             !.rec_stack = @ \cup {node},
             !.path = Append(@, node),
             !.entered = Append(@, node)]

\* rec_stack.discard(node) left out
DfsLeaveKeepsStack(st, node) == [st EXCEPT !.path = Slice(@, 1, Len(@) - 1)]

\* the clean-up of lines 200-201 left out
DfsLeaveNothing(st, node) == st

\* lines 200-201
DfsLeave(st, node) ==
  [st EXCEPT !.path = Slice(@, 1, Len(@) - 1),
             !.rec_stack = @ \ {node}]

RECURSIVE dfs(_, _, _)
RECURSIVE DfsNeighbors(_, _, _, _)

\* lines 193-198, from the k-th neighbour on; an exception ends the loop
DfsNeighbors(tasks, neighbors, k, st) ==
  IF k > Len(neighbors) \/ st.raised THEN st
  ELSE LET neighbor == neighbors[k]
           next == IF neighbor \notin st.visited THEN dfs(tasks, neighbor, st)
                   ELSE IF neighbor \in st.rec_stack THEN RecordCycle(st, neighbor)
                   ELSE st
       IN  DfsNeighbors(tasks, neighbors, k + 1, next)

\* lines 188-201
dfs(tasks, node, st) ==
  LET after == DfsNeighbors(tasks, GraphGet(tasks, node), 1, DfsEnter(st, node))
  IN  IF after.raised THEN after ELSE DfsLeave(after, node)

\* the loop of lines 203-205 without its test of visited
RECURSIVE DfsRootsAll(_, _, _, _)
DfsRootsAll(tasks, keys, k, st) ==
  IF k > Len(keys) \/ st.raised THEN st
  ELSE DfsRootsAll(tasks, keys, k + 1, dfs(tasks, keys[k], [st EXCEPT !.path = << >>]))

\* lines 203-205, from the k-th key on; each root starts with a fresh path
RECURSIVE DfsRoots(_, _, _, _)
DfsRoots(tasks, keys, k, st) ==
  IF k > Len(keys) \/ st.raised THEN st
  ELSE DfsRoots(tasks, keys, k + 1,
                IF keys[k] \notin st.visited
                THEN dfs(tasks, keys[k], [st EXCEPT !.path = << >>])
                ELSE st)

\* the state of the closure when detect_cycles returns (or raises)
DetectState(tasks) == DfsRoots(tasks, GraphKeys(tasks), 1, DfsStart)

detect_cycles(tasks) == DetectState(tasks).cycles

(***************************************************************************)
(* validate_tasks                                                          *)
(***************************************************************************)
VALID_COMPLEXITIES ==
  {<< "t", "r", "i", "v", "i", "a", "l" >>, << "s", "m", "a", "l", "l" >>,
   << "m", "e", "d", "i", "u", "m" >>, << "l", "a", "r", "g", "e" >>}

\* line 109
Placeholders ==
  {<< "t", "b", "d" >>, << "t", "o", "d", "o" >>, << "n", "/", "a" >>}

\* A finding.  The message is kept as the values its f-string is built from.
Finding(num, rule, severity, message) ==
  [task |-> num, rule |-> rule, severity |-> severity, message |-> message]

\* task_nums = {t["num"] for t in tasks}
TaskNums(tasks) == {tasks[i].num : i \in DOMAIN tasks}

\* Rule 1 with >= for >
AtomicScopeIssuesAtThree(task) ==
  IF task.file_count >= 3
  THEN << Finding(task.num, "atomic_scope", "error", << "Touches files", task.file_count >>) >>
  ELSE << >>

\* Rule 1, lines 92-99
AtomicScopeIssues(task) ==
  IF task.file_count > 3
  THEN << Finding(task.num, "atomic_scope", "error", << "Touches files", task.file_count >>) >>
  ELSE << >>

\* Rule 2, lines 101-108 (the error) and 109-115 (the warning)
VerifiableIssues(task) ==
  IF task.done_when = << >>
  THEN << Finding(task.num, "verifiable", "error", << "Missing Done when" >>) >>
  ELSE << >>

VerifiableWarnings(task) ==
  IF task.done_when # << >> /\ Lower(task.done_when) \in Placeholders
  THEN << Finding(task.num, "verifiable", "warning", << "placeholder", task.done_when >>) >>
  ELSE << >>

\* Rule 3, lines 117-124
StepsWarnings(task) ==
  IF ~task.has_steps
  THEN << Finding(task.num, "steps", "warning", << "No steps found" >>) >>
  ELSE << >>

\* Rule 4 with a break after the first error
PreconditionIssuesFirst(task, task_nums, k) ==
  LET missing == {i \in k..Len(task.preconditions) : task.preconditions[i] \notin task_nums}
  IN  IF missing = {} THEN << >>
      ELSE << Finding(task.num, "preconditions", "error",
                      << "References missing task", task.preconditions[Min(missing)] >>) >>

\* Rule 4, lines 126-134: one error for each entry of the list that is no task
RECURSIVE PreconditionIssues(_, _, _)
PreconditionIssues(task, task_nums, k) ==
  IF k > Len(task.preconditions) THEN << >>
  ELSE (IF task.preconditions[k] \notin task_nums
        THEN << Finding(task.num, "preconditions", "error",
                        << "References missing task", task.preconditions[k] >>) >>
        ELSE << >>)
       \o PreconditionIssues(task, task_nums, k + 1)

\* Rule 5, lines 136-143 (the error) and 144-150 (the warning); the message
\* of the warning joins VALID_COMPLEXITIES in the iteration order of the set
ComplexityIssues(task) ==
  IF task.complexity = << >>
  THEN << Finding(task.num, "complexity", "error", << "Missing complexity" >>) >>
  ELSE << >>

ComplexityWarnings(task, order) ==
  IF task.complexity # << >> /\ task.complexity \notin VALID_COMPLEXITIES
  THEN << Finding(task.num, "complexity", "warning",
                  << "not standard", task.complexity, order >>) >>
  ELSE << >>

\* Rule 6, lines 152-159
FilesWarnings(task) ==
  IF task.files = << >> \/ task.files = << << >> >>
  THEN << Finding(task.num, "files", "warning", << "No files listed" >>) >>
  ELSE << >>

\* the loop body left at the first error of a task
TaskIssuesFirstOnly(task, task_nums) ==
  LET all == AtomicScopeIssues(task) \o VerifiableIssues(task)
               \o PreconditionIssues(task, task_nums, 1) \o ComplexityIssues(task)
  IN  IF all = << >> THEN << >> ELSE << all[1] >>

\* what one iteration of the loop of lines 88-159 appends to issues
TaskIssues(task, task_nums) ==
  AtomicScopeIssues(task) \o VerifiableIssues(task)
    \o PreconditionIssues(task, task_nums, 1) \o ComplexityIssues(task)

\* what one iteration of the loop of lines 88-159 appends to warnings
TaskWarnings(task, order) ==
  VerifiableWarnings(task) \o StepsWarnings(task)
    \o ComplexityWarnings(task, order) \o FilesWarnings(task)

\* lines 88-159 for the tasks from the k-th on
RECURSIVE AllIssues(_, _)
AllIssues(tasks, k) ==
  IF k > Len(tasks) THEN << >>
  ELSE TaskIssues(tasks[k], TaskNums(tasks)) \o AllIssues(tasks, k + 1)

RECURSIVE AllWarnings(_, _, _)
AllWarnings(tasks, order, k) ==
  IF k > Len(tasks) THEN << >>
  ELSE TaskWarnings(tasks[k], order) \o AllWarnings(tasks, order, k + 1)

\* lines 163-169
CycleIssues(cycles) ==
  [k \in DOMAIN cycles |->
     Finding(cycles[k][1], "acyclic", "error", << "Circular dependency detected", cycles[k] >>)]

\* what a call that raised leaves its caller with
Raised == [raised |-> TRUE]

\* passed also asks for no warning
MakeResultStrict(tasks, issues, warnings) ==
  [raised |-> FALSE,
   total_tasks |-> Len(tasks),
   errors |-> Len(issues),
   warnings |-> Len(warnings),
   issues |-> issues,
   warnings_list |-> warnings,
   passed |-> Len(issues) = 0 /\ Len(warnings) = 0]

\* lines 171-178
MakeResult(tasks, issues, warnings) ==
  [raised |-> FALSE,
   total_tasks |-> Len(tasks),
   errors |-> Len(issues),
   warnings |-> Len(warnings),
   issues |-> issues,
   warnings_list |-> warnings,
   passed |-> Len(issues) = 0]

\* order: the iteration order of the set VALID_COMPLEXITIES in this process
validate_tasks(tasks, order) ==
  LET found == DetectState(tasks)
  IN  IF found.raised THEN Raised
      ELSE MakeResult(tasks,
                      AllIssues(tasks, 1) \o CycleIssues(found.cycles),
                      AllWarnings(tasks, order, 1))

(***************************************************************************)
(* main: the state of one run of the script                                *)
(***************************************************************************)
VARIABLES
  objective_data, \* what decompose.py was given when it wrote the plan file
  plan_exists,  \* plan_path.exists()
  content,      \* the lines of the plan file
  pc,           \* where main is
  tasks,        \* the list parse_task_plan returned
  validation,   \* the dictionary validate_tasks returned
  outputs,      \* the files written to output_dir, in order
  stderr,       \* the messages printed to sys.stderr
  exit_code     \* the argument of sys.exit, once main has exited

vars == << objective_data, plan_exists, content, pc, tasks, validation, outputs, stderr, exit_code >>

NotCalled == [called |-> FALSE]

\* the plan file was not written by decompose.py
NotGenerated == [generated |-> FALSE]

\* Two of the orders in which a process may iterate over the set
\* VALID_COMPLEXITIES (string hashing is randomised per process).
HashOrders ==
  {<< "trivial", "small", "medium", "large" >>, << "medium", "large", "small", "trivial" >>}

\* sys.exit(code) after the given messages on stderr
ExitWith(code, messages) ==
  /\ pc' = "exited"
  /\ exit_code' = << code >>
  /\ stderr' = stderr \o messages

\* lines 267-269
FileNotFound ==
  /\ pc = "start"
  /\ ~plan_exists
  /\ ExitWith(1, << "File not found" >>)
  /\ UNCHANGED << objective_data, plan_exists, content, tasks, validation, outputs >>

\* lines 271-272
ReadAndParse ==
  /\ pc = "start"
  /\ plan_exists
  /\ tasks' = parse_task_plan(content)
  /\ pc' = "parsed"
  /\ UNCHANGED << objective_data, plan_exists, content, validation, outputs, stderr, exit_code >>

\* lines 274-276
NoTasks ==
  /\ pc = "parsed"
  /\ tasks = << >>
  /\ ExitWith(1, << "No tasks found" >>)
  /\ UNCHANGED << objective_data, plan_exists, content, tasks, validation, outputs >>

\* line 278 without the check of lines 274-276 before it
ValidateAlways ==
  /\ pc = "parsed"
  /\ \E order \in HashOrders :
       /\ validation' = validate_tasks(tasks, order)
       /\ IF validation'.raised
          THEN ExitWith(1, << "Error" >>)
          ELSE pc' = "validated" /\ UNCHANGED << stderr, exit_code >>
  /\ UNCHANGED << objective_data, plan_exists, content, tasks, outputs >>

\* line 278; an exception of validate_tasks ends in the handler of lines 314-316
Validate ==
  /\ pc = "parsed"
  /\ tasks # << >>
  /\ \E order \in HashOrders :
       /\ validation' = validate_tasks(tasks, order)
       /\ IF validation'.raised
          THEN ExitWith(1, << "Error" >>)
          ELSE pc' = "validated" /\ UNCHANGED << stderr, exit_code >>
  /\ UNCHANGED << objective_data, plan_exists, content, tasks, outputs >>

\* lines 280-282
WriteJson ==
  /\ pc = "validated"
  /\ outputs' = Append(outputs, "validation-report.json")
  /\ pc' = "json_written"
  /\ UNCHANGED << objective_data, plan_exists, content, tasks, validation, stderr, exit_code >>

\* lines 284-287
WriteMarkdown ==
  /\ pc = "json_written"
  /\ outputs' = Append(outputs, "validation-report.md")
  /\ pc' = "md_written"
  /\ UNCHANGED << objective_data, plan_exists, content, tasks, validation, stderr, exit_code >>

\* lines 289-304
WriteManifest ==
  /\ pc = "md_written"
  /\ outputs' = Append(outputs, "manifest.json")
  /\ pc' = "manifest_written"
  /\ UNCHANGED << objective_data, plan_exists, content, tasks, validation, stderr, exit_code >>

\* lines 306-312
Exit ==
  /\ pc = "manifest_written"
  /\ ExitWith(IF validation.passed THEN 0 ELSE 1, << >>)
  /\ UNCHANGED << objective_data, plan_exists, content, tasks, validation, outputs >>

\* lines 314-316: mkdir, read_text or write_text raised OSError
OSErrorExit ==
  /\ pc \in {"start", "validated", "json_written", "md_written"}
  /\ ExitWith(1, << "Error" >>)
  /\ UNCHANGED << objective_data, plan_exists, content, tasks, validation, outputs >>

Next ==
  \/ FileNotFound
  \/ ReadAndParse
  \/ NoTasks
  \/ Validate
  \/ WriteJson
  \/ WriteMarkdown
  \/ WriteManifest
  \/ Exit
  \/ OSErrorExit

\* the state of main before its first statement, started on the file plan
Start(exists, plan) ==
  /\ objective_data = NotGenerated
  /\ plan_exists = exists
  /\ content = plan
  /\ pc = "start"
  /\ tasks = << >>
  /\ validation = NotCalled
  /\ outputs = << >>
  /\ stderr = << >>
  /\ exit_code = << >>

(***************************************************************************)
(* Plan files: the text the runs are started on.  The lines follow         *)
(* TASK_TEMPLATE of decompose.py ("- **Files:** ...").                     *)
(***************************************************************************)
\* the program's limit on the files of one task (validate-plan.py, line 93)
MaxScope == 3

\* the most tasks in a plan file whose fields vary
MaxTasks == 2

\* the most tasks, and the most precondition references in all, in a plan
\* file whose dependency graph varies
GraphTasks == 3
MaxEdges == 3

RECURSIVE NumText(_)
NumText(n) ==
  IF n < 10 THEN << DigitSeq[n + 1] >>
  ELSE NumText(n \div 10) \o << DigitSeq[(n % 10) + 1] >>

TaskRef(n) == << "T", "a", "s", "k", " " >> \o NumText(n)

RECURSIVE JoinWith(_, _)
JoinWith(parts, sep) ==
  IF parts = << >> THEN << >>
  ELSE IF Len(parts) = 1 THEN parts[1]
  ELSE parts[1] \o sep \o JoinWith(Tail(parts), sep)

TaskLine(n) == [kind |-> "task", num |-> n, text |-> << "A", "d", "d", " ", "x" >>]
SectionLine == [kind |-> "section", num |-> 0, text |-> << >>]
TextLine(text) == [kind |-> "line", num |-> 0, text |-> text]
FieldLine(label, text) == TextLine(<< "-", " ", label >> \o text)

\* a Files line that lists k file names in backquotes; no line for k = 0
FilesLines(k) ==
  IF k = 0 THEN << >>
  ELSE << FieldLine(FilesLabel,
            << " " >> \o JoinWith([i \in 1..k |-> << Backquote, LowerSeq[i], Backquote >>],
                                  << ",", " " >>)) >>

\* a Preconditions line that names the tasks of deps; "none" for no task
PreconditionsLines(deps) ==
  << FieldLine(PreconditionsLabel,
       << " " >> \o (IF deps = << >> THEN << "n", "o", "n", "e" >>
                     ELSE JoinWith([i \in DOMAIN deps |-> TaskRef(deps[i])], << ",", " " >>))) >>

StepsLines ==
  << FieldLine(StepsLabel, << >>),
     TextLine(<< " ", " ", "1", ".", " ", "d", "o" >>),
     TextLine(<< " ", " ", "2", ".", " ", "t", "e", "s", "t" >>) >>

DoneOptions ==
  {<< >>,
   << FieldLine(DoneWhenLabel, << " ", "p", "y", "t", "e", "s", "t", " ", "o", "k" >>) >>,
   << FieldLine(DoneWhenLabel, << " ", "T", "B", "D" >>) >>}

ComplexityOptions ==
  {<< >>,
   << FieldLine(ComplexityLabel, << " ", "s", "m", "a", "l", "l" >>) >>,
   << FieldLine(ComplexityLabel, << " ", "H", "u", "g", "e" >>) >>}

\* no Files line, a Files line that holds nothing but a pair of backquotes,
\* and Files lines of as many names as a task may have, and of one more
FilesOptions ==
  {<< >>, << FieldLine(FilesLabel, << " ", Backquote, Backquote >>) >>,
   FilesLines(MaxScope), FilesLines(MaxScope + 1)}

\* a block for every combination of what the six rules look at
RuleBlocks(n, refs) ==
  {<< TaskLine(n) >> \o files \o PreconditionsLines(deps) \o steps \o done \o complexity :
     files \in FilesOptions,
     deps \in {<< >>} \cup {<< r >> : r \in refs},
     steps \in {<< >>, StepsLines},
     done \in DoneOptions,
     complexity \in ComplexityOptions}

\* a task that breaks no rule, and one that breaks every rule
CleanBlock(n) ==
  << TaskLine(n) >> \o FilesLines(1) \o PreconditionsLines(<< >>) \o StepsLines
    \o << FieldLine(DoneWhenLabel, << " ", "p", "y", "t", "e", "s", "t", " ", "o", "k" >>),
          FieldLine(ComplexityLabel, << " ", "s", "m", "a", "l", "l" >>) >>

BrokenBlock(n, missing) ==
  << TaskLine(n) >> \o FilesLines(MaxScope + 1) \o PreconditionsLines(<< missing >>)

RECURSIVE Flatten(_)
Flatten(blocks) == IF blocks = << >> THEN << >> ELSE blocks[1] \o Flatten(Tail(blocks))

\* the functions that give each position k of 1..n a block of Others(k)
OtherBlocks(Others(_), n) ==
  {f \in [1..n -> UNION {Others(k) : k \in 1..n}] : \A k \in 1..n : f[k] \in Others(k)}

\* the plan of the blocks c, with the block at position j replaced by s
PlanAround(c, j, s) == Flatten([k \in DOMAIN c |-> IF k = j THEN s ELSE c[k]])

RuleSubjects(k) == RuleBlocks(k, {1, MaxTasks + 1})
RuleOthers(k) == {CleanBlock(k), BrokenBlock(k, MaxTasks + 1)}

\* plan files in which the fields of one task vary
InitRules ==
  \E n \in 1..MaxTasks : \E j \in 1..n :
    \E s \in RuleSubjects(j), c \in OtherBlocks(RuleOthers, n) :
      Start(TRUE, PlanAround(c, j, s))

\* texts of a Preconditions field
PreconditionsTexts ==
  {<< " ", "n", "o", "n", "e" >>,
   << " ", "N", "o", "n", "e" >>,
   << " ", "N", "O", "N", "E", " " >>,
   << " ", " ", "n", "O", "n", "E", "\t" >>,
   << " ", "n", "o", "n", "e", "." >>,
   << " ", "n", "o", "n", "e", " " >> \o TaskRef(1),
   << " " >> \o TaskRef(1),
   << " " >> \o TaskRef(1) \o << ",", " " >> \o TaskRef(12),
   << " ", "t", "a", "s", "k", " ", "1" >>,
   << " ", "T", "a", "s", "k", "1" >>,
   << " ", "T", "a", "s", "k", "\t", " ", "2", "x" >>,
   << " " >>,
   << >>}

\* a task whose Preconditions field, when it has one, may be followed by a line
TextBlocks(n) ==
  {<< TaskLine(n) >>}
    \cup {<< TaskLine(n), FieldLine(PreconditionsLabel, text) >> \o after :
            text \in PreconditionsTexts,
            after \in {<< >>, << FieldLine(DoneWhenLabel, << " " >> \o TaskRef(2)) >>,
                       << TextLine(<< "n", "o", "n", "e" >>) >>}}

TextOthers(k) == {CleanBlock(k)}

\* plan files in which the text of one Preconditions field varies
InitTexts ==
  \E n \in 1..MaxTasks : \E j \in 1..n :
    \E s \in TextBlocks(j), c \in OtherBlocks(TextOthers, n) :
      Start(TRUE, PlanAround(c, j, s))

\* for each of n tasks a list of preconditions taken from refs, budget
\* references in all at most
RECURSIVE DepChoices(_, _, _)
DepChoices(n, refs, budget) ==
  IF n = 0 THEN {<< >>}
  ELSE UNION {LET rests == DepChoices(n - 1, refs, budget - len)
               IN  {<< d >> \o rest : d \in [1..len -> refs], rest \in rests} :
                len \in 0..budget}

\* the task numbers of n blocks: increasing, decreasing, and with repeats
Numberings(n) ==
  {[k \in 1..n |-> k], [k \in 1..n |-> n + 1 - k], [k \in 1..n |-> (k + 1) \div 2]}

GraphPlan(nums, deps) ==
  Flatten([k \in DOMAIN nums |-> << TaskLine(nums[k]) >> \o PreconditionsLines(deps[k])])

\* plan files in which the dependency graph varies; task n + 1 does not exist
InitGraphs ==
  \E n \in 1..GraphTasks :
    \E nums \in Numberings(n), deps \in DepChoices(n, 1..(n + 1), MaxEdges) :
      Start(TRUE, GraphPlan(nums, deps))

\* texts of a Files field: nothing but decoration in the first six
FilesTexts ==
  {<< >>,
   << " " >>,
   << " ", Backquote, Backquote >>,
   << " ", Backquote, Backquote, ",", " ", Backquote, Backquote >>,
   << " ", "," >>,
   << " ", Backquote, " ", Backquote >>,
   << " ", Backquote, "a", Backquote, ",", " " >>,
   << " ", Backquote, "a", Backquote, ",", " ", Backquote, "b", Backquote >>}

\* a task with a Files field, alone in its block or before another field
FilesBlocks(n) ==
  {<< TaskLine(n), FieldLine(FilesLabel, text) >> \o after :
     text \in FilesTexts,
     after \in {<< >>, PreconditionsLines(<< >>) \o StepsLines}}

\* plan files in which the text of one Files field varies
InitFiles ==
  \E n \in 1..MaxTasks : \E j \in 1..n :
    \E s \in FilesBlocks(j), c \in OtherBlocks(TextOthers, n) :
      Start(TRUE, PlanAround(c, j, s))

(***************************************************************************)
(* decompose.py: generate_task_plan, and the plan file it writes.          *)
(* The text of a generated plan is a sequence of lines of characters in    *)
(* which, besides the field labels, each "### Task n: " and the "## " of a *)
(* heading are one element, and so are the words of the templates that the *)
(* parser never looks into.                                                *)
(***************************************************************************)
HeaderTokenSeq ==
  << "### Task 1: ", "### Task 2: ", "### Task 3: ", "### Task 4: ", "### Task 5: ",
     "### Task 6: ", "### Task 7: ", "### Task 8: ", "### Task 9: " >>

\* "### Task {num}: "
HeaderToken(num) == HeaderTokenSeq[num]

\* int(match.group(1)) for a match of task_pattern at the element tok
HeaderNum(tok) == CHOOSE n \in DOMAIN HeaderTokenSeq : HeaderTokenSeq[n] = tok

SectionMark == "## "

\* What task_pattern.finditer makes of the lines of a text, from line k on.
\* A "### Task n: " at the start of a line always starts a block, since the
\* block before it ends at "\n### Task"; one inside a line starts a block
\* only when no block is open there, otherwise the lazy (.+?) of the open
\* block runs over it.  A "## " at the start of a line ends the open block.
RECURSIVE ScanLines(_, _, _)
ScanLines(raw, k, open) ==
  IF k > Len(raw) THEN << >>
  ELSE LET line == raw[k]
           at == {q \in DOMAIN line : line[q] \in Range(HeaderTokenSeq)}
       IN  IF line # << >> /\ line[1] = SectionMark
           THEN << SectionLine >> \o ScanLines(raw, k + 1, FALSE)
           ELSE IF at # {} /\ (Min(at) = 1 \/ ~open)
           THEN (IF Min(at) = 1 THEN << >>
                 ELSE << TextLine(Slice(line, 1, Min(at) - 1)) >>)
                  \o << [kind |-> "task", num |-> HeaderNum(line[Min(at)]),
                         text |-> Slice(line, Min(at) + 1, Len(line))] >>
                  \o ScanLines(raw, k + 1, TRUE)
           ELSE << TextLine(line) >> \o ScanLines(raw, k + 1, open)

\* the words the parser compares or converts, character by character
NoneText == << "n", "o", "n", "e" >>
SmallText == << "s", "m", "a", "l", "l" >>
MediumText == << "m", "e", "d", "i", "u", "m" >>
TbdText == << "T", "B", "D" >>
Sequential == << "must", " ", "be", " ", "sequential" >>

\* TASK_TEMPLATE.format(...): the lines of one task; steps is a list of lines
TaskTemplate(num, title, files, preconditions, steps, done_when, complexity, parallel) ==
  << << HeaderToken(num) >> \o title,
     FieldLine(FilesLabel, << " " >> \o files).text,
     FieldLine(PreconditionsLabel, << " " >> \o preconditions).text,
     FieldLine(StepsLabel, << >>).text >>
    \o steps
    \o << FieldLine(DoneWhenLabel, << " " >> \o done_when).text,
          FieldLine(ComplexityLabel, << " " >> \o complexity).text,
          FieldLine(ParallelLabel, << " " >> \o parallel).text >>

\* a line of a steps argument: "  {n}. {text}"
StepLine(n, text) == << " ", " " >> \o NumText(n) \o << ".", " " >> \o text

\* lines 92-96 of decompose.py
layer_order ==
  << "infrastructure", "model", "migration", "schema", "repository",
     "service", "router", "types", "api-service", "hook",
     "component", "page", "unit-test", "integration-test", "e2e-test" >>

\* the key of sorted(): layer_order.index(x) if x in layer_order else 99
LayerKey(x) ==
  IF \E i \in DOMAIN layer_order : x = << layer_order[i] >>
  THEN (CHOOSE i \in DOMAIN layer_order : x = << layer_order[i] >>) - 1
  ELSE 99

\* x put into a sorted list after the elements whose key is not larger
InsertLayer(x, sorted) ==
  LET before == {i \in DOMAIN sorted : LayerKey(sorted[i]) <= LayerKey(x)}
      n == Cardinality(before)
  IN  Slice(sorted, 1, n) \o << x >> \o Slice(sorted, n + 1, Len(sorted))

\* sorted(layers, key=...): a stable sort
RECURSIVE SortedLayers(_)
SortedLayers(layers) ==
  IF layers = << >> THEN << >>
  ELSE InsertLayer(layers[Len(layers)], SortedLayers(Slice(layers, 1, Len(layers) - 1)))

\* the preconditions argument with task_num - 1 replaced by task_num
ChainPreconditionsSelf(task_num) == TaskRef(task_num)

\* "Task " + str(task_num - 1) if task_num > 1 else "none"
ChainPreconditions(task_num) ==
  IF task_num > 1 THEN TaskRef(task_num - 1) ELSE NoneText

\* the task of the loop of lines 101-112 for the layer that is sorted to task_num
LayerTask(task_num, layer) ==
  TaskTemplate(task_num,
    << "Implement", " " >> \o layer \o << " ", "layer" >>,
    << Backquote, "app/" >> \o layer \o << "s/", Backquote, " ", "or", " ",
       Backquote, "src/" >> \o layer \o << "s/", Backquote >>,
    ChainPreconditions(task_num),
    << StepLine(1, << "Create/update", " " >> \o layer \o << " ", "implementation" >>),
       StepLine(2, << "Follow", " ", "project", " ", "conventions" >>) >>,
    << "Tests", " ", "for", " " >> \o layer \o << " ", "pass" >>,
    SmallText,
    Sequential)

\* lines 113-135
FeatureFirstTasks(feature_name) ==
  << TaskTemplate(1,
       << "Implement", " " >> \o feature_name \o << " ", "-", " ", "backend", " ", "slice" >>,
       << "Backend", " ", "files", " ", "for", " ", "feature" >>,
       NoneText,
       << StepLine(1, << "Implement", " ", "backend", " ", "feature", " ", "slice" >>),
          StepLine(2, << "Add", " ", "unit", " ", "tests" >>) >>,
       << "Backend", " ", "tests", " ", "pass" >>,
       MediumText,
       << "Can", " ", "run", " ", "alongside", " ", "frontend", " ", "design" >>),
     TaskTemplate(2,
       << "Implement", " " >> \o feature_name \o << " ", "-", " ", "frontend", " ", "slice" >>,
       << "Frontend", " ", "files", " ", "for", " ", "feature" >>,
       TaskRef(1),
       << StepLine(1, << "Implement", " ", "frontend", " ", "feature", " ", "slice" >>),
          StepLine(2, << "Add", " ", "component", " ", "tests" >>) >>,
       << "Frontend", " ", "tests", " ", "pass" >>,
       MediumText,
       Sequential) >>

\* lines 136-169
MigrationTasks ==
  << TaskTemplate(1,
       << "Implement", " ", "new", " ", "path", " ", "alongside", " ", "old", " ", "path" >>,
       << "New", " ", "implementation", " ", "files" >>,
       NoneText,
       << StepLine(1, << "Create", " ", "new", " ", "implementation" >>),
          StepLine(2, << "Keep", " ", "old", " ", "path", " ", "untouched" >>) >>,
       << "New", " ", "path", " ", "tests", " ", "pass", " ", "AND", " ", "old", " ",
          "path", " ", "still", " ", "works" >>,
       MediumText,
       Sequential),
     TaskTemplate(2,
       << "Dual-write", " ", "to", " ", "both", " ", "old", " ", "and", " ", "new", " ", "paths" >>,
       << "Integration", " ", "points" >>,
       TaskRef(1),
       << StepLine(1, << "Add", " ", "dual-write", " ", "logic" >>),
          StepLine(2, << "Verify", " ", "both", " ", "paths", " ", "produce", " ",
                         "identical", " ", "results" >>) >>,
       << "Integration", " ", "tests", " ", "confirm", " ", "both", " ", "paths", " ", "match" >>,
       MediumText,
       Sequential),
     TaskTemplate(3,
       << "Switch", " ", "to", " ", "new", " ", "path", " ", "and", " ", "remove", " ",
          "old", " ", "path" >>,
       << "Old", " ", "implementation", " ", "files", ",", " ", "integration", " ", "points" >>,
       TaskRef(2),
       << StepLine(1, << "Remove", " ", "old", " ", "path", " ", "references" >>),
          StepLine(2, << "Clean", " ", "up", " ", "dual-write", " ", "code" >>) >>,
       << "All", " ", "tests", " ", "pass", " ", "with", " ", "only", " ", "new", " ", "path" >>,
       MediumText,
       Sequential) >>

\* lines 171-182: the task of a plan that no strategy gave a task
FallbackTasks(feature_name, objective) ==
  << TaskTemplate(1,
       << "Implement", " " >> \o feature_name,
       TbdText,
       NoneText,
       << StepLine(1, objective) >>,
       TbdText,
       MediumText,
       Sequential) >>

\* the strategy argument as the text of its name
LayerBased == << "layer-based" >>
FeatureFirst == << "feature-first" >>
Migration == << "migration" >>

\* lines 88-182: the list tasks, each element the lines of one task
GeneratedTasks(d) ==
  LET ordered_layers == SortedLayers(d.layers)
      made == IF d.strategy = LayerBased
              THEN [k \in DOMAIN ordered_layers |-> LayerTask(k, ordered_layers[k])]
              ELSE IF d.strategy = FeatureFirst THEN FeatureFirstTasks(d.feature_name)
              ELSE IF d.strategy = Migration THEN MigrationTasks
              ELSE << >>
  IN  IF made = << >> THEN FallbackTasks(d.feature_name, d.objective) ELSE made

\* "\n".join(tasks): each task ends with a newline, so an empty line
\* comes between two tasks
RECURSIVE JoinTasks(_)
JoinTasks(ts) ==
  IF Len(ts) = 1 THEN ts[1]
  ELSE ts[1] \o << << >> >> \o JoinTasks(Tail(ts))

\* datetime.now().strftime("%Y-%m-%d")
Today == << "2", "0", "2", "6", "-", "1", "1", "-", "0", "2" >>

\* lines 184-188 and 198-199: "\n## Constraints\n" and a line for each constraint
ConstraintsSection(constraints) ==
  IF constraints = << >> THEN << >>
  ELSE << << SectionMark, "Constraints" >> >>
         \o [k \in DOMAIN constraints |-> << "-", " " >> \o constraints[k]]
         \o << << >> >>

\* lines 190-201: the lines of the plan, TASK_PLAN_TEMPLATE filled in
generate_task_plan(d) ==
  << << "# Task Plan: " >> \o d.feature_name,
     << >>,
     << "Generated: " >> \o Today,
     << "Strategy: " >> \o d.strategy,
     << "Status: IN_PROGRESS" >>,
     << "Total tasks: " >> \o NumText(Len(GeneratedTasks(d))),
     << "Completed: 0" >>,
     << >>,
     << "---" >>,
     << >> >>
    \o JoinTasks(GeneratedTasks(d))
    \o << << >>, << >> >>
    \o ConstraintsSection(d.constraints)

\* main of validate-plan.py before its first statement, started on the file
\* that decompose.py wrote for the objective data d
StartGenerated(d) ==
  /\ objective_data = d
  /\ plan_exists = TRUE
  /\ content = ScanLines(generate_task_plan(d), 1, FALSE)
  /\ pc = "start"
  /\ tasks = << >>
  /\ validation = NotCalled
  /\ outputs = << >>
  /\ stderr = << >>
  /\ exit_code = << >>

\* the most layers, and the most constraints, of the objective data
MaxLayers == 2
MaxConstraints == 1

\* input strings: words, a reference to a task, a Preconditions field, a
\* task header
PlainText == << "Unnamed", " ", "Feature" >>
RefText == << "s", "e", "e", " " >> \o TaskRef(3)
LabelText == << PreconditionsLabel, " " >> \o TaskRef(1)
HeaderText == << HeaderToken(9), "x" >>

InputTexts == {PlainText, RefText, LabelText, HeaderText}

LayerNames == {<< "service" >>, << "model" >>, LabelText, HeaderText}

\* the lists of at most n elements of S
ListsUpTo(S, n) == UNION {[1..len -> S] : len \in 0..n}

\* plan files written by decompose.py: the layer-based strategy with its
\* layers, the two fixed strategies, and the plans that fall back to one
\* task, for want of layers or for a strategy that is none of the three
InitGenerated ==
  \/ \E layers \in ListsUpTo(LayerNames, MaxLayers) :
       \E feature_name \in {PlainText, HeaderText} :
         \E constraints \in ListsUpTo({PlainText, HeaderText}, MaxConstraints) :
           StartGenerated([strategy |-> LayerBased, layers |-> layers,
                           feature_name |-> feature_name, objective |-> PlainText,
                           constraints |-> constraints])
  \/ \E strategy \in {FeatureFirst, Migration, LabelText, HeaderText} :
       \E feature_name \in InputTexts, objective \in InputTexts :
         \E constraints \in ListsUpTo({PlainText, HeaderText}, MaxConstraints) :
           StartGenerated([strategy |-> strategy, layers |-> << >>,
                           feature_name |-> feature_name, objective |-> objective,
                           constraints |-> constraints])

\* a plan file that is empty, and one with text but no task header
NoTaskPlans ==
  {<< >>, << TextLine(<< "T", "a", "s", "k", " ", "1" >>), SectionLine >> \o FilesLines(1)}

Init ==
  \/ \E plan \in NoTaskPlans : Start(TRUE, plan)
  \/ Start(FALSE, << >>)
  \/ InitRules
  \/ InitTexts
  \/ InitGraphs
  \/ InitFiles
  \/ InitGenerated

Spec == Init /\ [][Next]_vars

(***************************************************************************)
(* Properties                                                              *)
(***************************************************************************)
\* validate_tasks has returned and main holds its result
Validated == pc = "validated"

\* the findings of the result that satisfy P
IssuesWhere(P(_)) == {i \in DOMAIN validation.issues : P(validation.issues[i])}
WarningsWhere(P(_)) ==
  {i \in DOMAIN validation.warnings_list : P(validation.warnings_list[i])}

IsError(f) == f.severity = "error"
IsAcyclicError(f) == f.rule = "acyclic" /\ f.severity = "error"

\* the dependency graph of a plan: an edge from each task to each precondition
\* that it declares
Edges(ts) ==
  UNION {{<< ts[i].num, d >> : d \in Range(ts[i].preconditions)} : i \in DOMAIN ts}

\* the numbers that the numbers of S reach along the edges of E, S included
RECURSIVE Reach(_, _)
Reach(E, S) ==
  LET more == S \cup {e[2] : e \in {x \in E : x[1] \in S}}
  IN  IF more = S THEN S ELSE Reach(E, more)

\* a is on a directed cycle of E
OnCycle(E, a) == \E e \in E : e[1] = a /\ a \in Reach(E, {e[2]})

HasCycle(ts) == \E e \in Edges(ts) : OnCycle(Edges(ts), e[1])

\* the length of the longest precondition list
MaxRefs(ts) ==
  IF ts = << >> THEN 0
  ELSE CHOOSE m \in {Len(ts[i].preconditions) : i \in DOMAIN ts} :
         \A i \in DOMAIN ts : Len(ts[i].preconditions) <= m

UniqueNums(ts) == \A i, j \in DOMAIN ts : ts[i].num = ts[j].num => i = j

\* C1: the counts of the result are the lengths of its lists, total_tasks is
\* the number of task records, and passed says that no finding of the result
\* has severity error; findings of severity warning leave passed true.
CountsConsistent ==
  Validated =>
    /\ validation.errors = Len(validation.issues)
    /\ validation.warnings = Len(validation.warnings_list)
    /\ validation.total_tasks = Len(tasks)
    /\ validation.passed = (validation.errors = 0)
    /\ validation.passed = (IssuesWhere(IsError) = {} /\ WarningsWhere(IsError) = {})

\* a plan whose only findings are warnings, and that passes
WarningsOnlyPasses ==
  /\ Validated
  /\ validation.warnings > 1
  /\ validation.errors = 0
  /\ validation.passed

\* C2: a plan with unique task numbers whose dependency graph has a directed
\* cycle gets at least one cycle from detect_cycles, at least one acyclic
\* error from validate_tasks, and does not pass.
NoMissedCycle ==
  (Validated /\ UniqueNums(tasks) /\ HasCycle(tasks)) =>
    /\ detect_cycles(tasks) # << >>
    /\ IssuesWhere(IsAcyclicError) # {}
    /\ ~validation.passed

\* three tasks in decreasing order whose only cycle has length three
ThreeCycleFound ==
  /\ Validated
  /\ Len(tasks) = 3
  /\ tasks[1].num > tasks[2].num
  /\ UniqueNums(tasks)
  /\ HasCycle(tasks)
  /\ \A i, j \in DOMAIN tasks :
       ~(tasks[j].num \in Range(tasks[i].preconditions)
           /\ tasks[i].num \in Range(tasks[j].preconditions))
  /\ IssuesWhere(IsAcyclicError) # {}

\* C3: a plan whose dependency graph has no directed cycle gets no cycle from
\* detect_cycles and no acyclic error from validate_tasks.
NoFalseCycle ==
  (Validated /\ ~HasCycle(tasks)) =>
    /\ detect_cycles(tasks) = << >>
    /\ IssuesWhere(IsAcyclicError) = {}

\* an acyclic plan of three tasks, two of which share a precondition, one of
\* them with a precondition that is no task
DiamondNoCycle ==
  /\ Validated
  /\ Len(tasks) = 3
  /\ UniqueNums(tasks)
  /\ ~HasCycle(tasks)
  /\ \E i, j \in DOMAIN tasks :
       /\ i # j
       /\ Range(tasks[i].preconditions) \cap Range(tasks[j].preconditions)
            \cap TaskNums(tasks) # {}
       /\ Range(tasks[j].preconditions) \ TaskNums(tasks) # {}
  /\ IssuesWhere(IsAcyclicError) = {}

\* the only references of a task are to the one task number other
DeclaresOnly(task, other) == task.preconditions = << other >>

MutualPair ==
  /\ Validated
  /\ Len(tasks) = 2
  /\ tasks[1].num # tasks[2].num
  /\ tasks[2].num \in Range(tasks[1].preconditions)
  /\ tasks[1].num \in Range(tasks[2].preconditions)

\* C4 as claimed: two tasks that each declare the other as a precondition
\* get exactly one acyclic error, whose path holds both task numbers.
MutualPairOneCycle ==
  MutualPair =>
    /\ Cardinality(IssuesWhere(IsAcyclicError)) = 1
    /\ \A i \in IssuesWhere(IsAcyclicError) :
         {tasks[1].num, tasks[2].num} \subseteq Range(validation.issues[i].message[2])

\* C4 as amended: two tasks that each declare the other, once, as their only
\* precondition get exactly one acyclic error; its path goes from the task
\* that comes first in the document to the other one and back.
ExactPairOneCycle ==
  (MutualPair /\ DeclaresOnly(tasks[1], tasks[2].num) /\ DeclaresOnly(tasks[2], tasks[1].num)) =>
    /\ detect_cycles(tasks) = << << tasks[1].num, tasks[2].num, tasks[1].num >> >>
    /\ Cardinality(IssuesWhere(IsAcyclicError)) = 1
    /\ \A i \in IssuesWhere(IsAcyclicError) :
         /\ validation.issues[i].task = tasks[1].num
         /\ validation.issues[i].message[2] = << tasks[1].num, tasks[2].num, tasks[1].num >>

\* such a pair with the higher task number first in the document
ExactPairReversed ==
  /\ MutualPair
  /\ DeclaresOnly(tasks[1], tasks[2].num)
  /\ DeclaresOnly(tasks[2], tasks[1].num)
  /\ tasks[1].num > tasks[2].num
  /\ Cardinality(IssuesWhere(IsAcyclicError)) = 1

IsPreconditionsError(f) == f.rule = "preconditions" /\ f.severity = "error"

\* the positions in the precondition list of a task that name no task
MissingRefs(ts, i) ==
  {k \in DOMAIN ts[i].preconditions : ts[i].preconditions[k] \notin TaskNums(ts)}

\* the preconditions errors of the result that are attributed to task number n
PreconditionsErrorsOf(n) ==
  IssuesWhere(LAMBDA f : IsPreconditionsError(f) /\ f.task = n)

IssuesOf(n, rule) ==
  IssuesWhere(LAMBDA f : f.task = n /\ f.rule = rule /\ f.severity = "error")
WarningsOf(n, rule) ==
  WarningsWhere(LAMBDA f : f.task = n /\ f.rule = rule /\ f.severity = "warning")

\* the records of task number n that satisfy P
TasksOf(n, P(_)) == {i \in DOMAIN tasks : tasks[i].num = n /\ P(tasks[i])}

TooManyFiles(t) == Len(t.files) > 3

\* C6: each task that lists more than 3 files gets exactly one atomic_scope
\* finding, of severity error and in issues; no other task gets one, and no
\* atomic_scope finding is in warnings or has another severity.
AtomicScopeOneError ==
  Validated =>
    /\ \A n \in TaskNums(tasks) :
         Cardinality(IssuesOf(n, "atomic_scope")) = Cardinality(TasksOf(n, TooManyFiles))
    /\ IssuesWhere(LAMBDA f : f.rule = "atomic_scope" /\ f.severity # "error") = {}
    /\ WarningsWhere(LAMBDA f : f.rule = "atomic_scope") = {}

\* a task of four files with its error beside a task of three files without
FourFilesBesideThree ==
  /\ Validated
  /\ \E i, j \in DOMAIN tasks :
       /\ Len(tasks[i].files) = 4
       /\ Cardinality(IssuesOf(tasks[i].num, "atomic_scope")) = 1
       /\ Len(tasks[j].files) = 3
       /\ IssuesOf(tasks[j].num, "atomic_scope") = {}

NoHeaders(doc) == \A i \in DOMAIN doc : doc[i].kind # "task"

\* C8: on a plan file without any task header, parse_task_plan returns the
\* empty list, validate_tasks is never called, no file is written, and main
\* exits with status 1.
NoTasksIsInputError ==
  (plan_exists /\ NoHeaders(content) /\ pc # "start") =>
    /\ tasks = << >>
    /\ validation = NotCalled
    /\ outputs = << >>
    /\ pc \in {"parsed", "exited"}
    /\ pc = "exited" => exit_code = << 1 >>

\* main has exited on a plan file that has text but no task header
ExitedOnNoTasks ==
  /\ pc = "exited"
  /\ plan_exists
  /\ content # << >>
  /\ NoHeaders(content)
  /\ stderr = << "No tasks found" >>
  /\ exit_code = << 1 >>

\* the lines of the block of header line i that hold the Preconditions
\* label, the title line among them
PreconditionsFieldLines(doc, i) ==
  {j \in i..BlockEnd(doc, i) : PreconditionsLabel \in Range(doc[j].text)}

\* the text of line j after its Preconditions label
TextAfterLabel(doc, j) ==
  LET at == Min({p \in DOMAIN doc[j].text : doc[j].text[p] = PreconditionsLabel})
  IN  Slice(doc[j].text, at + 1, Len(doc[j].text))

\* the block of header line i has no Preconditions field, or one that reads
\* "none" in some letter case once it is trimmed
DeclaresNone(doc, i) ==
  \/ PreconditionsFieldLines(doc, i) = {}
  \/ Lower(Strip(TextAfterLabel(doc, Min(PreconditionsFieldLines(doc, i)))))
       = << "n", "o", "n", "e" >>

\* C9: a task whose Preconditions field is absent or reads "none" is parsed
\* with no preconditions, whatever other tasks the plan has; when no other
\* task has its number it gets no preconditions error and has no edge in
\* the dependency graph.
NoneMeansNoPreconditions ==
  Validated =>
    \A k \in DOMAIN tasks :
      DeclaresNone(content, TaskHeaders(content)[k]) =>
        /\ tasks[k].preconditions = << >>
        /\ TasksOf(tasks[k].num, LAMBDA t : TRUE) = {k} =>
             /\ PreconditionsErrorsOf(tasks[k].num) = {}
             /\ GraphGet(tasks, tasks[k].num) = << >>
             /\ \A e \in Edges(tasks) : e[1] # tasks[k].num

\* a second task whose field reads "NONE " before a line that names a task,
\* after a first task
UpperCaseNoneAfterTask ==
  /\ Validated
  /\ Len(tasks) = 2
  /\ \E j \in PreconditionsFieldLines(content, TaskHeaders(content)[2]) :
       /\ TextAfterLabel(content, j) = << " ", "N", "O", "N", "E", " " >>
       /\ j < Len(content)
       /\ TaskRefStarts(content[j + 1].text) # {}
  /\ tasks[2].preconditions = << >>

\* what the rules of lines 92-159 ask of one task record
MissingDoneWhen(t) == t.done_when = << >>
PlaceholderDoneWhen(t) == t.done_when # << >> /\ Lower(t.done_when) \in Placeholders
NoSteps(t) == ~t.has_steps
MissingReference(t) == Range(t.preconditions) \ TaskNums(tasks) # {}
MissingComplexity(t) == t.complexity = << >>
OddComplexity(t) == t.complexity # << >> /\ t.complexity \notin VALID_COMPLEXITIES
NoFiles(t) == t.files = << >> \/ t.files = << << >> >>

PerTaskRules == {"atomic_scope", "verifiable", "steps", "preconditions", "complexity", "files"}

\* C10: for every task number and every row of the rule table, the result
\* holds a finding of that rule and severity for that number exactly when a
\* task of that number meets the condition of the row, whatever else was found
\* for it or for the tasks before it; errors are in issues, warnings in
\* warnings_list, and there is no other finding but the acyclic errors.
FindingsExhaustive ==
  Validated =>
    /\ \A n \in TaskNums(tasks) :
         /\ IssuesOf(n, "atomic_scope") # {} <=> TasksOf(n, TooManyFiles) # {}
         /\ IssuesOf(n, "verifiable") # {} <=> TasksOf(n, MissingDoneWhen) # {}
         /\ WarningsOf(n, "verifiable") # {} <=> TasksOf(n, PlaceholderDoneWhen) # {}
         /\ WarningsOf(n, "steps") # {} <=> TasksOf(n, NoSteps) # {}
         /\ IssuesOf(n, "preconditions") # {} <=> TasksOf(n, MissingReference) # {}
         /\ IssuesOf(n, "complexity") # {} <=> TasksOf(n, MissingComplexity) # {}
         /\ WarningsOf(n, "complexity") # {} <=> TasksOf(n, OddComplexity) # {}
         /\ WarningsOf(n, "files") # {} <=> TasksOf(n, NoFiles) # {}
         /\ WarningsOf(n, "atomic_scope") \cup WarningsOf(n, "preconditions")
              \cup IssuesOf(n, "steps") \cup IssuesOf(n, "files") = {}
    /\ \A i \in DOMAIN validation.issues :
         LET f == validation.issues[i]
         IN  /\ f.severity = "error"
             /\ f.rule \in PerTaskRules \cup {"acyclic"}
             /\ f.rule # "acyclic" => f.task \in TaskNums(tasks)
    /\ \A i \in DOMAIN validation.warnings_list :
         LET f == validation.warnings_list[i]
         IN  /\ f.severity = "warning"
             /\ f.rule \in PerTaskRules
             /\ f.task \in TaskNums(tasks)

\* a first task with four kinds of error and a warning, then a task with an
\* error of one kind only and three kinds of warning
ManyFindingsOnTwoTasks ==
  /\ Validated
  /\ Len(tasks) = 2
  /\ UniqueNums(tasks)
  /\ \A rule \in {"atomic_scope", "verifiable", "preconditions", "complexity"} :
       IssuesOf(tasks[1].num, rule) # {}
  /\ WarningsOf(tasks[1].num, "steps") # {}
  /\ IssuesOf(tasks[2].num, "atomic_scope") # {}
  /\ \A rule \in {"verifiable", "preconditions", "complexity"} :
       IssuesOf(tasks[2].num, rule) = {}
  /\ \A rule \in {"verifiable", "steps", "complexity"} :
       WarningsOf(tasks[2].num, rule) # {}

\* C11: validate_tasks is a function of the task sequence alone: the result
\* a run holds is the result a call on the same tasks returns in any
\* process, whatever order that process iterates VALID_COMPLEXITIES in (same
\* counts, same findings in the same order, same passed).
ResultOfTasksOnly ==
  Validated =>
    \A order \in HashOrders : validate_tasks(tasks, order) = validation

\* The part of C11 that does not read the message of the complexity warning:
\* counts, passed, and the task, rule and severity of every finding, in order.
FindingKeys(fs) ==
  [i \in DOMAIN fs |-> << fs[i].task, fs[i].rule, fs[i].severity >>]

ResultKeys(r) ==
  << r.total_tasks, r.errors, r.warnings, r.passed,
     FindingKeys(r.issues), FindingKeys(r.warnings_list) >>

SameKeysInEveryProcess ==
  Validated =>
    \A order \in HashOrders :
      ResultKeys(validate_tasks(tasks, order)) = ResultKeys(validation)

\* a validated plan with a complexity that is none of VALID_COMPLEXITIES
OddComplexityValidated ==
  /\ Validated
  /\ \E i \in DOMAIN validation.warnings_list :
       /\ validation.warnings_list[i].rule = "complexity"
       /\ validation.warnings_list[i].message[3] = << "medium", "large", "small", "trivial" >>

\* the lines of the block of header line i that hold the Files label
FilesFieldLines(doc, i) ==
  {j \in (i + 1)..BlockEnd(doc, i) : FilesLabel \in Range(doc[j].text)}

\* the text of line j after its Files label
TextAfterFiles(doc, j) ==
  LET at == Min({p \in DOMAIN doc[j].text : doc[j].text[p] = FilesLabel})
  IN  Slice(doc[j].text, at + 1, Len(doc[j].text))

\* the block of header line i has a Files field that holds nothing, or
\* nothing but backquotes, whitespace and commas
DecorationOnly(doc, i) ==
  /\ FilesFieldLines(doc, i) # {}
  /\ Range(TextAfterFiles(doc, Min(FilesFieldLines(doc, i))))
       \subseteq Whitespace \cup {Backquote, ","}

\* C12: a task whose Files field is empty or holds only decoration is parsed
\* with the empty files list and file_count 0, and gets the files warning.
DecorationMeansNoFiles ==
  Validated =>
    \A k \in DOMAIN tasks :
      DecorationOnly(content, TaskHeaders(content)[k]) =>
        /\ tasks[k].files = << >>
        /\ tasks[k].file_count = 0
        /\ WarningsOf(tasks[k].num, "files") # {}

\* a validated task whose Files field reads two empty pairs of backquotes:
\* two blank names, a file count of 2, and no files warning
TwoBlankFilesNoWarning ==
  /\ Validated
  /\ \E k \in DOMAIN tasks :
       /\ DecorationOnly(content, TaskHeaders(content)[k])
       /\ tasks[k].files = << << >>, << >> >>
       /\ tasks[k].file_count = 2
       /\ WarningsOf(tasks[k].num, "files") = {}

\* c is a closed walk of the graph detect_cycles builds from ts: it ends
\* where it starts, each step follows an edge, and no other number repeats
ClosedWalk(ts, c) ==
  /\ Len(c) >= 2
  /\ c[1] = c[Len(c)]
  /\ \A i \in 1..(Len(c) - 1) : c[i + 1] \in Range(GraphGet(ts, c[i]))
  /\ \A i, j \in 1..(Len(c) - 1) : c[i] = c[j] => i = j

\* C13: every cycle detect_cycles returns is a closed walk of the dependency
\* graph with no repeated number but its endpoint; the acyclic errors of the
\* result are its last findings, one for each returned cycle in the order
\* returned, each attributed to the first number of its path.
CyclesAreClosedWalks ==
  Validated =>
    LET cycles == detect_cycles(tasks)
        n == Len(validation.issues)
        k == Len(cycles)
    IN  /\ \A i \in DOMAIN cycles : ClosedWalk(tasks, cycles[i])
        /\ k <= n
        /\ IssuesWhere(LAMBDA f : f.rule = "acyclic") = (n - k + 1)..n
        /\ \A i \in 1..k :
             LET f == validation.issues[n - k + i]
             IN  /\ f.severity = "error"
                 /\ f.task = cycles[i][1]
                 /\ f.message[2] = cycles[i]
        /\ WarningsWhere(LAMBDA f : f.rule = "acyclic") = {}

\* a cycle of two tasks that the traversal reaches from a third one: its
\* error comes after the per-task errors and is attributed to the task the
\* cycle starts at, not to the task the traversal started at
CycleBehindRoot ==
  /\ Validated
  /\ Len(tasks) = 3
  /\ UniqueNums(tasks)
  /\ validation.issues[1].rule # "acyclic"
  /\ \E i \in IssuesWhere(IsAcyclicError) :
       LET f == validation.issues[i]
       IN  /\ Len(f.message[2]) = 3
           /\ f.task # tasks[1].num
           /\ tasks[1].num \notin Range(f.message[2])
           /\ f.task \in Reach(Edges(tasks), {tasks[1].num})

\* the numbers on a directed cycle of the plan, and the numbers that lie on
\* a cycle together with a
CycleNodes(ts) == {e[1] : e \in {x \in Edges(ts) : OnCycle(Edges(ts), x[1])}}

CycleOf(ts, a) ==
  {b \in Reach(Edges(ts), {a}) : a \in Reach(Edges(ts), {b})}

\* the cycles of the plan are pairwise node-disjoint and there is no other
\* cycle: each number on a cycle has one edge that stays on its cycle
DisjointCycles(ts) ==
  \A a \in CycleNodes(ts) :
    Cardinality({e \in Edges(ts) : e[1] = a /\ e[2] \in CycleOf(ts, a)}) = 1

\* the paths of the acyclic errors of the result, in order
AcyclicPaths ==
  LET at == SortedSeq(IssuesWhere(IsAcyclicError))
  IN  [i \in DOMAIN at |-> validation.issues[at[i]].message[2]]

\* one acyclic error for each cycle of the plan, none twice
OneErrorPerCycle(ts) ==
  /\ Len(AcyclicPaths) = Cardinality({CycleOf(ts, a) : a \in CycleNodes(ts)})
  /\ {Range(AcyclicPaths[i]) : i \in DOMAIN AcyclicPaths}
       = {CycleOf(ts, a) : a \in CycleNodes(ts)}
  /\ \A i, j \in DOMAIN AcyclicPaths :
       Range(AcyclicPaths[i]) = Range(AcyclicPaths[j]) => i = j

\* C14: a plan with unique task numbers whose dependency graph has k
\* pairwise node-disjoint cycles and no other cycle gets exactly k acyclic
\* errors, one for each cycle and none twice, in every document order.
DisjointCyclesOnceEach ==
  (Validated /\ UniqueNums(tasks) /\ DisjointCycles(tasks)) => OneErrorPerCycle(tasks)

\* no task lists the same precondition twice
NoRepeatedRefs(ts) ==
  \A i \in DOMAIN ts :
    Cardinality(Range(ts[i].preconditions)) = Len(ts[i].preconditions)

\* C14 for the plans in which no task lists a precondition twice
DisjointCyclesOnceEachNoRepeats ==
  (Validated /\ UniqueNums(tasks) /\ DisjointCycles(tasks) /\ NoRepeatedRefs(tasks))
    => OneErrorPerCycle(tasks)

\* a task that lists its precondition twice, on the one cycle of the plan,
\* and two acyclic errors with the same path
SameCycleTwice ==
  /\ Validated
  /\ UniqueNums(tasks)
  /\ DisjointCycles(tasks)
  /\ Cardinality({CycleOf(tasks, a) : a \in CycleNodes(tasks)}) = 1
  /\ Len(AcyclicPaths) = 2
  /\ AcyclicPaths[1] = AcyclicPaths[2]
  /\ Len(AcyclicPaths[1]) = 3

\* two disjoint cycles, each reported once, the tasks in decreasing order
TwoDisjointCyclesFound ==
  /\ Validated
  /\ UniqueNums(tasks)
  /\ DisjointCycles(tasks)
  /\ NoRepeatedRefs(tasks)
  /\ Len(tasks) = 3
  /\ tasks[1].num > tasks[2].num
  /\ Cardinality({CycleOf(tasks, a) : a \in CycleNodes(tasks)}) = 2
  /\ Len(AcyclicPaths) = 2

\* the edges of the graph detect_cycles builds: for each task number the
\* preconditions of its last record
GraphEdges(ts) ==
  UNION {{<< n, d >> : d \in Range(GraphGet(ts, n))} : n \in TaskNums(ts)}

\* C15: detect_cycles comes to its end on every plan: dfs is entered at most
\* once for each node, a task number or a number that is only referenced;
\* at the end rec_stack and path are empty and visited holds every task
\* number of the plan, and nothing but the nodes the traversal can reach.
TraversalVisitsOnce ==
  Validated =>
    LET st == DetectState(tasks)
    IN  /\ ~st.raised
        /\ \A i, j \in DOMAIN st.entered : st.entered[i] = st.entered[j] => i = j
        /\ Range(st.entered) = st.visited
        /\ st.rec_stack = {}
        /\ st.path = << >>
        /\ TaskNums(tasks) \subseteq st.visited
        /\ st.visited = Reach(GraphEdges(tasks), TaskNums(tasks))

\* a plan of three tasks with a cycle, a number that is only referenced, and
\* a task that is reached before the loop of the roots comes to it
VisitedCycleAndDangling ==
  /\ Validated
  /\ Len(tasks) = 3
  /\ UniqueNums(tasks)
  /\ HasCycle(tasks)
  /\ LET st == DetectState(tasks)
     IN  /\ Len(st.entered) = 4
         /\ st.visited \ TaskNums(tasks) # {}
         /\ st.entered[2] = tasks[3].num
         /\ st.rec_stack = {}

\* the plan file was written by decompose.py
Generated == objective_data # NotGenerated

\* tasks numbered 1..n in document order, the first with no precondition and
\* each other one with the task before it as its only precondition
ChainOfTasks(ts) ==
  \A i \in DOMAIN ts :
    /\ ts[i].num = i
    /\ ts[i].preconditions = (IF i = 1 THEN << >> ELSE << i - 1 >>)

\* the round trip of a generated plan through parse_task_plan and validate_tasks
RoundTrips ==
  /\ ChainOfTasks(tasks)
  /\ Len(tasks) = Len(GeneratedTasks(objective_data))
  /\ IssuesWhere(IsPreconditionsError) = {}
  /\ IssuesWhere(LAMBDA f : f.rule = "acyclic") = {}

\* C16 as claimed: the plan generate_task_plan writes, for any strategy and
\* any input strings without newlines, parses into tasks 1..n that form a
\* chain, and gets no preconditions error and no acyclic error.
GeneratedPlanRoundTrips ==
  (Validated /\ Generated) => RoundTrips

\* the text holds no Preconditions label and no task header
MarkerFree(text) ==
  /\ PreconditionsLabel \notin Range(text)
  /\ Range(text) \cap Range(HeaderTokenSeq) = {}

MarkerFreeData(d) ==
  /\ MarkerFree(d.strategy)
  /\ MarkerFree(d.feature_name)
  /\ MarkerFree(d.objective)
  /\ \A k \in DOMAIN d.layers : MarkerFree(d.layers[k])
  /\ \A k \in DOMAIN d.constraints : MarkerFree(d.constraints[k])

\* C16 as amended: the same for input strings that hold neither a newline
\* nor the label "**Preconditions:**" nor a task header "### Task n: ".
MarkerFreePlanRoundTrips ==
  (Validated /\ Generated /\ MarkerFreeData(objective_data)) => RoundTrips

\* a layer-based plan whose two layers were given in the reverse of their
\* order in layer_order, with a constraint, validated as a chain of two tasks
SortedLayersRoundTrip ==
  /\ Validated
  /\ Generated
  /\ MarkerFreeData(objective_data)
  /\ objective_data.strategy = LayerBased
  /\ objective_data.layers = << << "service" >>, << "model" >> >>
  /\ objective_data.constraints # << >>
  /\ Len(tasks) = 2
  /\ tasks[2].preconditions = << 1 >>
  /\ RoundTrips

====
